---- MODULE Spec2Model ----
(***************************************************************************)
(* Model of ai-engine/predict.py: the ObjectDetectionPredictor class       *)
(* (constructor, predict_image, predict_batch, _extract_predictions,       *)
(* _draw_predictions) and the command line entry point main().             *)
(*                                                                         *)
(* Strings and paths are sequences of one-character strings, so that       *)
(* str.upper(), Path.stem, Path.suffix and glob matching are computed.     *)
(* The external collaborators (file system, cv2, torch, ultralytics, the   *)
(* TTA predictor) are the environment: every answer they can give is a     *)
(* nondeterministic choice made at the call.                               *)
(***************************************************************************)
EXTENDS Integers, Sequences, FiniteSets, TLC

(***************************************************************************)
(* Bounds of the model.                                                    *)
(***************************************************************************)
\* largest number of entries of the source directory
MaxFiles == 2
\* largest number of boxes the library returns for one image
MaxBoxes == 2

(***************************************************************************)
(* Strings.                                                                *)
(***************************************************************************)
\* str.upper() on one character (the alphabet of the modelled names)
UpperChar(c) ==
    CASE c = "a" -> "A" [] c = "b" -> "B" [] c = "g" -> "G"
      [] c = "j" -> "J" [] c = "n" -> "N" [] c = "p" -> "P"
      [] c = "e" -> "E" [] c = "m" -> "M" [] c = "t" -> "T"
      [] c = "x" -> "X"
      [] OTHER -> c

\* str.upper()
Upper(s) == [i \in DOMAIN s |-> UpperChar(s[i])]

\* str.endswith()
EndsWith(s, suf) ==
    /\ Len(suf) <= Len(s)
    /\ SubSeq(s, Len(s) - Len(suf) + 1, Len(s)) = suf

\* str.rfind(c), 1-based, 0 when c does not occur
RFind(s, c) ==
    LET hits == {i \in DOMAIN s : s[i] = c}
    IN  IF hits = {} THEN 0 ELSE CHOOSE i \in hits : \A j \in hits : j <= i

(***************************************************************************)
(* pathlib.Path                                                            *)
(***************************************************************************)
\* Path(dir) / name
Join(dir, name) == dir \o <<"/">> \o name

\* Path.name: the part after the last separator
PathName(p) == SubSeq(p, RFind(p, "/") + 1, Len(p))

\* Path.suffix: from the last dot of the name, unless the dot is the first
\* or the last character of the name
PathSuffix(p) ==
    LET name == PathName(p)
        i    == RFind(name, ".")
    IN  IF 1 < i /\ i < Len(name) THEN SubSeq(name, i, Len(name)) ELSE <<>>

\* Path.stem: the name without its suffix
PathStem(p) ==
    LET name == PathName(p)
        i    == RFind(name, ".")
    IN  IF 1 < i /\ i < Len(name) THEN SubSeq(name, 1, i - 1) ELSE name

\* output_dir / f"{image_path.stem}_predicted{image_path.suffix}"
OutputPath(output_dir, image_path) ==
    Join(output_dir,
         PathStem(image_path)
            \o <<"_", "p", "r", "e", "d", "i", "c", "t", "e", "d">>
            \o PathSuffix(image_path))

\* Path('predictions'), the default of predict_image
DefaultOutputDir == <<"p", "r", "e", "d", "i", "c", "t", "i", "o", "n", "s">>

\* the default of predict_batch's extensions parameter
DefaultExtensions ==
    << <<".", "j", "p", "g">>, <<".", "j", "p", "e", "g">>,
       <<".", "p", "n", "g">>, <<".", "b", "m", "p">> >>

(***************************************************************************)
(* Directory listing.                                                      *)
(***************************************************************************)
\* variant of GlobSet: the pattern "*" without the extension
GlobSetAll(entries, ext, caseSensitive) == entries

\* source_dir.glob(f"*{ext}") as a set: the entries whose name ends with
\* ext; pathlib folds case where paths are case-insensitive (Windows)
GlobSet(entries, ext, caseSensitive) ==
    {n \in entries :
        IF caseSensitive THEN EndsWith(n, ext)
        ELSE EndsWith(Upper(n), Upper(ext))}

\* all orders in which a directory scan can yield a set of entries
RECURSIVE Orders(_)
Orders(S) ==
    IF S = {} THEN {<<>>}
    ELSE UNION {{<<x>> \o t : t \in Orders(S \ {x})} : x \in S}

\* the lists image_files can hold after the loop over extensions:
\* for each ext, glob("*" + ext) then glob("*" + ext.upper()) are appended
RECURSIVE FindImages(_, _, _, _)
FindImages(dir, entries, extensions, caseSensitive) ==
    IF extensions = <<>> THEN {<<>>}
    ELSE LET ext   == Head(extensions)
             lower == Orders(GlobSet(entries, ext, caseSensitive))
             upper == Orders(GlobSet(entries, Upper(ext), caseSensitive))
             rest  == FindImages(dir, entries, Tail(extensions), caseSensitive)
         IN  {[i \in 1..Len(a) |-> Join(dir, a[i])]
                \o [i \in 1..Len(b) |-> Join(dir, b[i])] \o r :
                    a \in lower, b \in upper, r \in rest}

(***************************************************************************)
(* The detection library and cv2.                                          *)
(***************************************************************************)
\* --conf and --iou defaults, in hundredths
DefaultConf == 25
DefaultIou == 45

\* model.names of the loaded model: class id -> class name
ModelNames ==
    [c \in 0..6 |->
        CASE c = 0 -> "OxygenTank"        [] c = 1 -> "NitrogenTank"
          [] c = 2 -> "FirstAidBox"       [] c = 3 -> "FireAlarm"
          [] c = 4 -> "SafetySwitchPanel" [] c = 5 -> "EmergencyPhone"
          [] OTHER -> "FireExtinguisher"]

\* the k-th box the library returns for an image: cls, conf in hundredths,
\* xyxy in tenths of a pixel
LibBox(k) ==
    [cls |-> (6 * k) % 7, conf |-> 91 - 17 * k,
     xyxy |-> <<105 + k, 207 + k, 1509 + k, 1603 + k>>]

NoBoxes == [has_boxes |-> FALSE, boxes |-> <<>>]

\* what model.predict(...)[0] / predictor.predict_single(...) can return:
\* an object with a boxes attribute holding 0..MaxBoxes boxes, or (TTA
\* predictor) one without the attribute
LibResults ==
    {[has_boxes |-> TRUE, boxes |-> [i \in 1..n |-> LibBox(i)]] : n \in 0..MaxBoxes}
        \cup {NoBoxes}

\* cv2.imread of a readable file: the decoded array
Imread(path) == [file |-> path, shape |-> <<480, 640, 3>>, draws |-> <<>>]

\* int() on a non-negative coordinate held in tenths
IntOf(tenths) == tenths \div 10

(***************************************************************************)
(* ObjectDetectionPredictor                                                *)
(***************************************************************************)
NoPredictor == [exists |-> FALSE]
NoResult == [none |-> TRUE]

\* variant of ExtractPredictions: the loop stops one box early
ExtractPredictionsOffByOne(class_names, results) ==
    IF results.has_boxes
    THEN [i \in 1..(Len(results.boxes) - 1) |->
            [class_id   |-> results.boxes[i].cls,
             class_name |-> class_names[results.boxes[i].cls],
             confidence |-> results.boxes[i].conf,
             bbox       |-> results.boxes[i].xyxy]]
    ELSE <<>>

\* _extract_predictions: one record per box, in the order of results.boxes
ExtractPredictions(class_names, results) ==
    IF results.has_boxes
    THEN [i \in 1..Len(results.boxes) |->
            [class_id   |-> results.boxes[i].cls,
             class_name |-> class_names[results.boxes[i].cls],
             confidence |-> results.boxes[i].conf,
             bbox       |-> results.boxes[i].xyxy]]
    ELSE <<>>

\* the colour palette of _draw_predictions
Colors ==
    << <<255, 0, 0>>, <<0, 255, 0>>, <<0, 0, 255>>, <<255, 255, 0>>,
       <<255, 0, 255>>, <<0, 255, 255>>, <<128, 0, 128>> >>

\* _draw_predictions: a rectangle and a label per prediction, drawn on the
\* image it is given. The list of predictions is passed by reference: the
\* operator yields the image returned and the list as the call leaves it
\* (the code only reads it).
DrawPredictions(image, predictions) ==
    [image |->
        [image EXCEPT !.draws = image.draws \o
            [i \in 1..Len(predictions) |->
                [rect  |-> [k \in 1..4 |-> IntOf(predictions[i].bbox[k])],
                 color |-> Colors[(predictions[i].class_id % Len(Colors)) + 1],
                 label |-> <<predictions[i].class_name, predictions[i].confidence>>]]],
     predictions |-> predictions]

\* what the environment answers during __init__
InitAnswers ==
    [cuda : BOOLEAN, load : {"ok", "raise"}]

\* variant of CheckModel: the existence check left out
CheckModelSkipped(model_exists) == ""

\* the check of the model path that opens __init__: the exception raised
CheckModel(model_exists) ==
    IF ~model_exists THEN "FileNotFoundError" ELSE ""

\* ObjectDetectionPredictor.__init__: the exception it raises ("" if none),
\* the predictor it builds and the library calls it makes
Construct(model_path, model_exists, conf, iou, device, use_tta, tta_available, e) ==
    IF CheckModel(model_exists) # ""
    THEN [raised |-> CheckModel(model_exists), predictor |-> NoPredictor, calls |-> <<>>]
    ELSE LET tta    == use_tta /\ tta_available
             dev    == IF device = "None"
                       THEN (IF e.cuda THEN "cuda" ELSE "cpu")
                       ELSE device
             probe  == IF device = "None" THEN << <<"cuda.is_available", model_path>> >>
                       ELSE <<>>
             loader == IF tta THEN <<"TTAPredictor", model_path>>
                       ELSE <<"YOLO", model_path>>
         IN  IF e.load = "raise"
             THEN [raised |-> "Exception", predictor |-> NoPredictor,
                   calls |-> Append(probe, loader)]
             ELSE [raised    |-> "",
                   predictor |-> [exists |-> TRUE, model_path |-> model_path,
                                  conf_threshold |-> conf, iou_threshold |-> iou,
                                  use_tta |-> tta, device |-> dev,
                                  class_names |-> ModelNames],
                   calls     |-> Append(probe, loader)
                                   \o (IF tta THEN <<>> ELSE << <<"model.to", model_path>> >>)]

\* condition of an image file: gone by the time it is opened, not decodable,
\* making the inference raise, or processed with the given library result
FileConditions ==
    {[state |-> st, results |-> NoBoxes] : st \in {"missing", "unreadable", "infer_raise"}}
        \cup {[state |-> "ok", results |-> r] : r \in LibResults}

\* condition of the output location: writable, mkdir raising, imwrite
\* raising, or imwrite returning False without writing
OutputConditions == {"ok", "mkdir_raise", "imwrite_raise", "imwrite_false"}

\* what the environment answers during one predict_image of a file in
\* condition c with the output location in condition o
ImageAnswers(c, o) ==
    [exists   |-> c.state # "missing",
     readable |-> c.state \notin {"missing", "unreadable"},
     infer    |-> IF c.state = "ok" THEN "ok" ELSE "raise",
     results  |-> c.results,
     mkdir    |-> IF o = "mkdir_raise" THEN "raise" ELSE "ok",
     imwrite  |-> IF o = "imwrite_raise" THEN "raise"
                  ELSE IF o = "imwrite_false" THEN "false" ELSE "ok"]

\* variant of Precheck: the existence check left out, a missing file
\* surfaces as an unreadable one
PrecheckNoExists(e) ==
    IF ~e.readable THEN "ValueError" ELSE ""

\* the two checks that open predict_image: the exception raised
Precheck(e) ==
    IF ~e.exists THEN "FileNotFoundError"
    ELSE IF ~e.readable THEN "ValueError"
    ELSE ""

\* predict_image: the exception it raises ("" if none), the result it
\* returns, the directories and files after it, the library calls it makes
\* and the lines it prints
PredictImage(self, image_path, save_output, output_dir, dirs, files, e) ==
    LET fail(exc, cs) ==
            [raised |-> exc, result |-> NoResult, dirs |-> dirs, files |-> files,
             calls |-> cs, prints |-> <<>>]
        image       == Imread(image_path)
        readCalls   == << <<"imread", image_path>> >>
        inferCalls  == Append(readCalls,
                              <<IF self.use_tta THEN "predict_single" ELSE "model.predict",
                                image_path>>)
        predictions == ExtractPredictions(self.class_names, e.results)
        out_dir     == IF output_dir = <<>> THEN DefaultOutputDir ELSE output_dir
        output_path == OutputPath(out_dir, image_path)
        drawn       == DrawPredictions(image, predictions)
        annotated   == drawn.image
        after       == IF save_output THEN drawn.predictions ELSE predictions
        result      == [image_path |-> image_path,
                        image_size |-> SubSeq(image.shape, 1, 2),
                        predictions |-> after,
                        num_detections |-> Len(after)]
    IN  IF Precheck(e) # ""
        THEN fail(Precheck(e), IF e.exists THEN readCalls ELSE <<>>)
        ELSE IF e.infer = "raise" THEN fail("Exception", inferCalls)
        ELSE IF ~save_output
        THEN [raised |-> "", result |-> result, dirs |-> dirs, files |-> files,
              calls |-> inferCalls, prints |-> <<>>]
        ELSE IF e.mkdir = "raise"
        THEN fail("OSError", Append(inferCalls, <<"mkdir", out_dir>>))
        ELSE LET mkCalls == inferCalls \o << <<"mkdir", out_dir>>, <<"imwrite", output_path>> >>
                 made    == dirs \cup {out_dir}
             IN  IF e.imwrite = "raise"
                 THEN [raised |-> "cv2.error", result |-> NoResult, dirs |-> made,
                       files |-> files, calls |-> mkCalls, prints |-> <<>>]
                 ELSE [raised |-> "", result |-> result, dirs |-> made,
                       files |-> IF e.imwrite = "false" THEN files
                                 ELSE {f \in files : f.path # output_path}
                                        \cup {[path |-> output_path, image |-> annotated]},
                       calls |-> mkCalls,
                       prints |-> <<[tag |-> "Saved", val |-> output_path]>>]

(***************************************************************************)
(* Inputs: command lines, file system contents, direct calls.              *)
(***************************************************************************)
NameAJpg == <<"a", ".", "j", "p", "g">>
NameBJPG == <<"b", ".", "J", "P", "G">>
NameNTxt == <<"n", ".", "t", "x", "t">>

\* names the image directory can hold
EntryNames == {NameAJpg, NameBJPG, NameNTxt}

\* directory contents: at most MaxFiles entries, each in some condition; a
\* case-insensitive file system holds no two names that differ only in case
Directories(caseSensitive) ==
    UNION {[S -> FileConditions] :
            S \in {T \in SUBSET EntryNames :
                    /\ Cardinality(T) <= MaxFiles
                    /\ caseSensitive \/ \A m, n \in T : Upper(m) = Upper(n) => m = n}}

SourceDir == <<"d">>
MissingDir == <<"x">>
ModelPath == <<"b", "e", "s", "t", ".", "p", "t">>
MissingModel == <<"m", ".", "p", "t">>
CustomOutput == <<"o">>

\* an absent entry is a missing file
ConditionOf(listing, path) ==
    IF PathName(path) \in DOMAIN listing /\ path = Join(SourceDir, PathName(path))
    THEN listing[PathName(path)]
    ELSE [state |-> "missing", results |-> NoBoxes]

\* Path.is_file() / Path.is_dir() / Path.exists() of the modelled tree
IsFile(listing, path) ==
    /\ PathName(path) \in DOMAIN listing
    /\ path = Join(SourceDir, PathName(path))
IsDir(path) == path = SourceDir
Exists(listing, path) == IsDir(path) \/ IsFile(listing, path)

\* the entries a glob on path scans: those of the directory, none when
\* path is not a directory
Scanned(listing, path) == IF IsDir(path) THEN DOMAIN listing ELSE {}
ModelExists(path) == path = ModelPath

\* extension lists a caller passes to predict_batch
ExtensionLists ==
    {DefaultExtensions, << <<".", "J", "P", "G">> >>, << <<".", "j", "p", "g">>, <<"g">> >>}

\* the parsed command line: --source, --model, --conf, --iou, --device,
\* --output, --tta, --no-save
CommandLines ==
    [source : {SourceDir, Join(SourceDir, NameAJpg)}, model : {ModelPath, MissingModel},
     conf : {DefaultConf}, iou : {DefaultIou}, device : {"None", "cpu"},
     output : {DefaultOutputDir, CustomOutput}, tta : BOOLEAN, no_save : BOOLEAN]

\* the exponent k of the quotient t / n: 2^k <= t / n < 2^(k+1), t, n > 0
RECURSIVE Log2Floor(_, _)
Log2Floor(t, n) ==
    IF t >= n THEN (IF 2 * n <= t THEN 1 + Log2Floor(t, 2 * n) ELSE 0)
    ELSE Log2Floor(2 * t, n) - 1

\* 2^e modulo n
RECURSIVE PowMod2(_, _)
PowMod2(e, n) == IF e = 0 THEN 1 % n ELSE (2 * PowMod2(e - 1, n)) % n

\* the sign of float(t / n) - t / n: the true division rounds the quotient
\* to 53 significant bits, to the nearest; the remainder of t * 2^e by n,
\* e = 52 - k, tells the side (0 when the quotient is a binary fraction)
FloatError(t, n) ==
    IF t = 0 THEN 0
    ELSE LET e == 52 - Log2Floor(t, n)
             r == ((t % n) * PowMod2(e, n)) % n
         IN  IF r = 0 THEN 0 ELSE IF 2 * r < n THEN -1 ELSE 1

\* variant of Avg2f: floor division instead of true division
AvgFloorDiv(total, n) == 100 * (total \div n)

\* '{:.2f}'.format(total / n) in hundredths, n > 0: the binary float
\* total / n is rounded to two decimals. On a decimal tie the side the
\* float fell on decides; a float that holds the tie exactly goes to even.
Avg2f(total, n) ==
    LET q == (100 * total) \div n
        r == (100 * total) % n
    IN  IF 2 * r < n THEN q
        ELSE IF 2 * r > n THEN q + 1
        ELSE IF FloatError(total, n) < 0 THEN q
        ELSE IF FloatError(total, n) > 0 THEN q + 1
        ELSE IF q % 2 = 0 THEN q ELSE q + 1

\* sum(r['num_detections'] for r in results)
RECURSIVE SumDetections(_)
SumDetections(results) ==
    IF results = <<>> THEN 0
    ELSE Head(results).num_detections + SumDetections(Tail(results))

(***************************************************************************)
(* State.                                                                  *)
(***************************************************************************)
VARIABLES
    mode,            \* "main": a run of main(); "api": direct calls of the class
    args,            \* the parsed command line
    tta_available,   \* TTA_AVAILABLE, set by the import at module load
    case_sensitive,  \* whether the file system distinguishes case
    entries,         \* the image directory: name -> condition of the file
    out_state,       \* condition of the output location
    pc,              \* where the run is
    predictor,       \* the ObjectDetectionPredictor, once constructed
    call,            \* arguments of the predict_batch call in progress
    image_files,     \* predict_batch: the list built by the globs
    idx,             \* predict_batch: index of the next image of the loop
    all_predictions, \* predict_batch: results collected so far
    result,          \* value returned by predict_image to main or to the caller
    results,         \* value returned by predict_batch to main or to the caller
    raised,          \* exception raised by the last constructor or method call
    dirs,            \* directories made by mkdir during the run
    files,           \* files written by imwrite during the run
    calls,           \* library calls made, in order
    attempts,        \* predict_batch: outcome of each predict_image of the loop
    stdout,          \* lines printed
    exit_code        \* return value of main(), -1 while it runs

vars == <<mode, args, tta_available, case_sensitive, entries, out_state, pc, predictor, call,
          image_files, idx, all_predictions, result, results, raised, dirs, files, calls,
          attempts, stdout, exit_code>>

NoCall == [active |-> FALSE]

Init ==
    /\ mode \in {"main", "api"}
    /\ args \in CommandLines
    /\ tta_available \in BOOLEAN
    /\ case_sensitive \in BOOLEAN
    /\ entries \in Directories(case_sensitive)
    /\ out_state \in OutputConditions
    /\ pc = "start"
    /\ predictor = NoPredictor
    /\ call = NoCall
    /\ image_files = <<>>
    /\ idx = 1
    /\ all_predictions = <<>>
    /\ result = NoResult
    /\ results = <<>>
    /\ raised = ""
    /\ dirs = {}
    /\ files = {}
    /\ calls = <<>>
    /\ attempts = <<>>
    /\ stdout = <<>>
    /\ exit_code = -1
    \* a direct caller has no command line beyond the constructor arguments
    /\ mode = "api" => args.source = SourceDir /\ args.output = DefaultOutputDir /\ ~args.no_save
    \* the output location matters only to a run that saves
    /\ args.no_save => args.output = DefaultOutputDir /\ out_state = "ok"
    \* directories of several files are explored with one configuration of
    \* the constructor, the configurations of the constructor with
    \* directories of at most one file
    /\ \/ Cardinality(DOMAIN entries) <= 1
       \/ args.device = "cpu" /\ ~args.tta /\ tta_available

(***************************************************************************)
(* Printed lines.                                                          *)
(***************************************************************************)
Line(tag, val) == [tag |-> tag, val |-> val]

\* the "Detected objects:" listing of main, or "No objects detected."
ObjectLines(predictions) ==
    IF predictions = <<>> THEN <<Line("No objects detected", 0)>>
    ELSE [i \in 1..Len(predictions) |->
            Line("object", <<i, predictions[i].class_name, predictions[i].confidence>>)]

\* the closing lines of a run of main that caught nothing
SuccessLines(a) ==
    <<Line("Inference completed successfully", 0)>>
        \o (IF ~a.no_save THEN <<Line("Predictions saved to", a.output)>> ELSE <<>>)

\* the SUMMARY block of main
SummaryLines(rs) ==
    LET total_detections == SumDetections(rs)
    IN  <<Line("Total images processed", Len(rs)),
          Line("Total detections", total_detections)>>
            \o (IF rs # <<>>
                THEN <<Line("Average detections per image", Avg2f(total_detections, Len(rs)))>>
                ELSE <<>>)

\* output_dir = Path(args.output) if not args.no_save else None
OutputDirOf(a) == IF ~a.no_save THEN a.output ELSE <<>>

(***************************************************************************)
(* main(): construction of the predictor.                                  *)
(***************************************************************************)
MainInit ==
    /\ pc = "start"
    /\ mode = "main"
    /\ \E e \in InitAnswers :
        LET c == Construct(args.model, ModelExists(args.model), args.conf, args.iou,
                           args.device, args.tta, tta_available, e)
        IN  /\ raised' = c.raised
            /\ calls' = calls \o c.calls
            /\ predictor' = c.predictor
            /\ IF c.raised # ""
               THEN /\ stdout' = Append(stdout, Line("Error loading model", c.raised))
                    /\ exit_code' = 1
                    /\ pc' = "done"
               ELSE /\ stdout' = Append(stdout, Line("Model loaded successfully", 0))
                    /\ exit_code' = exit_code
                    /\ pc' = "run"
    /\ UNCHANGED <<mode, args, tta_available, case_sensitive, entries, out_state, call, image_files,
                   idx, all_predictions, result, results, dirs, files, attempts>>

\* a direct construction: the exception reaches the caller
ApiInit ==
    /\ pc = "start"
    /\ mode = "api"
    /\ \E e \in InitAnswers :
        LET c == Construct(args.model, ModelExists(args.model), args.conf, args.iou,
                           args.device, args.tta, tta_available, e)
        IN  /\ raised' = c.raised
            /\ calls' = calls \o c.calls
            /\ predictor' = c.predictor
            /\ IF c.raised # ""
               THEN /\ stdout' = stdout
                    /\ pc' = "done"
               ELSE /\ stdout' = Append(stdout, Line("Model loaded successfully", 0))
                    /\ pc' = "ready"
    /\ UNCHANGED <<mode, args, tta_available, case_sensitive, entries, out_state, call, image_files,
                   idx, all_predictions, result, results, dirs, files, attempts, exit_code>>

(***************************************************************************)
(* main(): single image.                                                   *)
(***************************************************************************)
\* variant of SingleExit: the handler returns 0
SingleExitZero(r) == 0

\* main()'s return value after predict_image on a single image
SingleExit(r) == IF r.raised = "" THEN 0 ELSE 1

MainSingle ==
    /\ pc = "run"
    /\ mode = "main"
    /\ IsFile(entries, args.source)
    /\  LET r == PredictImage(predictor, args.source, ~args.no_save, OutputDirOf(args),
                              dirs, files,
                              ImageAnswers(ConditionOf(entries, args.source), out_state))
        IN  /\ raised' = r.raised
            /\ result' = r.result
            /\ dirs' = r.dirs
            /\ files' = r.files
            /\ calls' = calls \o r.calls
            /\ IF r.raised = ""
               THEN /\ stdout' = Append(stdout, Line("Running inference on", args.source))
                                    \o r.prints
                                    \o <<Line("Image", r.result.image_path),
                                         Line("Detections", r.result.num_detections)>>
                                    \o ObjectLines(r.result.predictions)
                                    \o SuccessLines(args)
                    /\ exit_code' = SingleExit(r)
               ELSE /\ stdout' = Append(stdout, Line("Running inference on", args.source))
                                    \o r.prints
                                    \o <<Line("Error during inference", r.raised)>>
                    /\ exit_code' = SingleExit(r)
    /\ pc' = "done"
    /\ UNCHANGED <<mode, args, tta_available, case_sensitive, entries, out_state, predictor, call,
                   image_files, idx, all_predictions, results, attempts>>

\* source is neither a file nor a directory
MainNeither ==
    /\ pc = "run"
    /\ mode = "main"
    /\ ~IsFile(entries, args.source)
    /\ ~IsDir(args.source)
    /\ stdout' = Append(stdout, Line("neither a file nor a directory", args.source))
    /\ exit_code' = 1
    /\ pc' = "done"
    /\ UNCHANGED <<mode, args, tta_available, case_sensitive, entries, out_state, predictor, call,
                   image_files, idx, all_predictions, result, results, raised, dirs, files,
                   calls, attempts>>

(***************************************************************************)
(* predict_batch                                                           *)
(***************************************************************************)
\* predict_batch up to the loop: the directory check and the globs.
\* The exception of a missing directory reaches the caller; in main it is
\* caught by the handler around the inference.
BatchBegin(caller, source_dir, save_output, output_dir, extensions) ==
    /\ call' = [active |-> TRUE, method |-> "predict_batch", caller |-> caller,
                source |-> source_dir,
                save_output |-> save_output, output_dir |-> output_dir,
                extensions |-> extensions]
    /\ idx' = 1
    /\ all_predictions' = <<>>
    /\ attempts' = <<>>
    /\ results' = <<>>
    /\  IF ~Exists(entries, source_dir)
        THEN /\ raised' = "FileNotFoundError"
             /\ image_files' = <<>>
             /\ pc' = "done"
             /\ IF caller = "main"
                THEN /\ stdout' = stdout \o <<Line("Running batch inference on", source_dir),
                                              Line("Error during inference", "FileNotFoundError")>>
                     /\ exit_code' = 1
                ELSE /\ stdout' = stdout
                     /\ exit_code' = exit_code
        ELSE /\ raised' = ""
             /\ exit_code' = exit_code
             /\ \E found \in FindImages(source_dir, Scanned(entries, source_dir),
                                         extensions, case_sensitive) :
                 /\ image_files' = found
                 /\ LET head == IF caller = "main"
                                THEN <<Line("Running batch inference on", source_dir)>>
                                ELSE <<>>
                    IN  IF found = <<>>
                        THEN /\ stdout' = stdout \o head \o <<Line("No images found", source_dir)>>
                             /\ pc' = "returned"
                        ELSE /\ stdout' = stdout \o head \o <<Line("Found images", Len(found))>>
                             /\ pc' = "loop"
    /\ UNCHANGED <<mode, args, tta_available, case_sensitive, entries, out_state, predictor, result,
                   dirs, files, calls>>

\* main(): the source is a directory
MainBatch ==
    /\ pc = "run"
    /\ mode = "main"
    /\ ~IsFile(entries, args.source)
    /\ IsDir(args.source)
    /\ BatchBegin("main", args.source, ~args.no_save, OutputDirOf(args), DefaultExtensions)

\* variant of Collected: the list is assigned instead of appended to
CollectedLast(predictions, r) ==
    IF r.raised = "" THEN <<r.result>> ELSE predictions

\* all_predictions after one iteration: the result is appended unless
\* predict_image raised
Collected(predictions, r) ==
    IF r.raised = "" THEN Append(predictions, r.result) ELSE predictions

\* one iteration of the loop over image_files
BatchIter ==
    /\ pc = "loop"
    /\ idx <= Len(image_files)
    /\  LET img_path == image_files[idx]
            r == PredictImage(predictor, img_path, call.save_output, call.output_dir,
                              dirs, files,
                              ImageAnswers(ConditionOf(entries, img_path), out_state))
            collected == Collected(all_predictions, r)
        IN  /\ all_predictions' = collected
            /\ attempts' = Append(attempts, [image_path |-> img_path, raised |-> r.raised,
                                             result |-> r.result])
            /\ dirs' = r.dirs
            /\ files' = r.files
            /\ calls' = calls \o r.calls
            /\ stdout' = Append(stdout, Line("Processing", PathName(img_path)))
                            \o r.prints
                            \o (IF r.raised = ""
                                THEN <<Line("Detected objects", r.result.num_detections)>>
                                ELSE <<Line("Error", r.raised)>>)
            /\ idx' = idx + 1
            /\ IF idx = Len(image_files)
               THEN /\ results' = collected
                    /\ pc' = "returned"
               ELSE /\ results' = results
                    /\ pc' = "loop"
    /\ UNCHANGED <<mode, args, tta_available, case_sensitive, entries, out_state, predictor, call,
                   image_files, result, raised, exit_code>>

\* main(): the summary after predict_batch returned
MainSummary ==
    /\ pc = "returned"
    /\ mode = "main"
    /\ stdout' = stdout \o SummaryLines(results) \o SuccessLines(args)
    /\ exit_code' = 0
    /\ pc' = "done"
    /\ UNCHANGED <<mode, args, tta_available, case_sensitive, entries, out_state, predictor, call,
                   image_files, idx, all_predictions, result, results, raised, dirs, files,
                   calls, attempts>>

(***************************************************************************)
(* Direct calls of the class.                                              *)
(***************************************************************************)
ApiPredictBatch ==
    /\ pc = "ready"
    /\ mode = "api"
    /\ \E source_dir \in {SourceDir, MissingDir, Join(SourceDir, NameAJpg)},
          save_output \in BOOLEAN,
          output_dir \in {<<>>, CustomOutput}, extensions \in ExtensionLists :
        /\ save_output \/ output_dir = <<>>
        /\ source_dir # SourceDir => extensions = DefaultExtensions
        /\ BatchBegin("api", source_dir, save_output, output_dir, extensions)

ApiPredictImage ==
    /\ pc = "ready"
    /\ mode = "api"
    /\ \E image_path \in {Join(SourceDir, NameAJpg), Join(SourceDir, NameNTxt)},
          save_output \in BOOLEAN, output_dir \in {<<>>, CustomOutput} :
        /\ save_output \/ output_dir = <<>>
        /\ call' = [active |-> TRUE, method |-> "predict_image", caller |-> "api",
                    source |-> image_path,
                    save_output |-> save_output, output_dir |-> output_dir,
                    extensions |-> <<>>]
        /\  LET r == PredictImage(predictor, image_path, save_output, output_dir,
                                  dirs, files,
                                  ImageAnswers(ConditionOf(entries, image_path), out_state))
            IN  /\ raised' = r.raised
                /\ result' = r.result
                /\ dirs' = r.dirs
                /\ files' = r.files
                /\ calls' = calls \o r.calls
                /\ stdout' = stdout \o r.prints
    /\ pc' = "done"
    /\ UNCHANGED <<mode, args, tta_available, case_sensitive, entries, out_state, predictor,
                   image_files, idx, all_predictions, results, attempts, exit_code>>

Next ==
    \/ MainInit
    \/ ApiInit
    \/ MainSingle
    \/ MainNeither
    \/ MainBatch
    \/ BatchIter
    \/ MainSummary
    \/ ApiPredictBatch
    \/ ApiPredictImage

Spec == Init /\ [][Next]_vars

(***************************************************************************)
(* Properties.                                                             *)
(***************************************************************************)
HasLine(tag) == \E i \in DOMAIN stdout : stdout[i].tag = tag
LineVal(tag) == stdout[CHOOSE i \in DOMAIN stdout : stdout[i].tag = tag].val
Abs(x) == IF x < 0 THEN -x ELSE x

\* positions in calls of inference calls, of image reads, of output writes
InferenceCalls == {i \in DOMAIN calls : calls[i][1] \in {"model.predict", "predict_single"}}
ReadCalls == {i \in DOMAIN calls : calls[i][1] = "imread"}
OutputCalls == {i \in DOMAIN calls : calls[i][1] \in {"mkdir", "imwrite"}}

InBatch == call.active /\ call.method = "predict_batch" /\ IsDir(call.source)
InSingle ==
    /\ pc = "done"
    /\ \/ mode = "api" /\ call.active /\ call.method = "predict_image"
       \/ mode = "main" /\ HasLine("Running inference on")
SinglePath == IF mode = "api" THEN call.source ELSE args.source

\* an entry name matches an extension of the list passed to predict_batch
NameMatches(n, exts) ==
    \E k \in DOMAIN exts :
        IF case_sensitive
        THEN EndsWith(n, exts[k]) \/ EndsWith(n, Upper(exts[k]))
        ELSE EndsWith(Upper(n), Upper(exts[k]))
MatchingFiles == {n \in DOMAIN entries : NameMatches(n, call.extensions)}

\* the results of the attempts that did not raise, in order
RECURSIVE Succeeded(_)
Succeeded(att) ==
    IF att = <<>> THEN <<>>
    ELSE (IF Head(att).raised = "" THEN <<Head(att).result>> ELSE <<>>)
            \o Succeeded(Tail(att))

\* the sum of num_detections over the first n results
RECURSIVE DetectionsUpTo(_, _)
DetectionsUpTo(rs, n) ==
    IF n = 0 THEN 0 ELSE DetectionsUpTo(rs, n - 1) + rs[n].num_detections

\* every result predict_image has returned so far
AllResults ==
    {all_predictions[i] : i \in DOMAIN all_predictions}
        \cup {results[i] : i \in DOMAIN results}
        \cup (IF InSingle /\ raised = "" THEN {result} ELSE {})

\* the images for which predict_image returned a result
ReturnedImages == {r.image_path : r \in AllResults}

SaveRequested ==
    IF mode = "main" THEN ~args.no_save ELSE call.active /\ call.save_output
EffectiveOutputDir ==
    IF mode = "main" THEN args.output
    ELSE IF call.output_dir = <<>> THEN DefaultOutputDir ELSE call.output_dir

\* an error was caught during the run of main(): by one of main's handlers,
\* by the neither-file-nor-directory branch, or by predict_batch's handler
ErrorCaught ==
    \/ raised # ""
    \/ HasLine("neither a file nor a directory")
    \/ \E i \in DOMAIN attempts : attempts[i].raised # ""

\* C1: main() returns 1 whenever any error was caught during the run,
\* per-image errors of batch mode included, and 0 only when none was caught.
C1_ExitCodeReflectsEveryError ==
    (mode = "main" /\ pc = "done") => exit_code = (IF ErrorCaught THEN 1 ELSE 0)

\* C2: on an existing directory predict_batch never raises because an
\* image failed, attempts every image found, in order and also after
\* failures, and returns exactly the results of the images that succeeded,
\* in the order they were processed.
C2_BatchSkipsFailuresAndContinues ==
    InBatch =>
        /\ raised = ""
        /\ pc = "loop" => idx <= Len(image_files) /\ Len(attempts) = idx - 1
        /\ all_predictions = Succeeded(attempts)
        /\ \A i \in DOMAIN attempts : attempts[i].image_path = image_files[i]
        /\ pc \in {"returned", "done"} =>
            /\ Len(attempts) = Len(image_files)
            /\ results = Succeeded(attempts)

\* predict_batch has returned after a failed image followed by a successful one
C2_Witness ==
    /\ InBatch
    /\ pc = "returned"
    /\ Len(attempts) >= 2
    /\ attempts[1].raised # ""
    /\ attempts[2].raised = ""
    /\ Len(results) >= 1

\* C3: in single-image mode an exception of predict_image makes main()
\* return 1 without the success message; when the construction of the
\* predictor fails main() returns 1 and no image is read or inferred on.
C3_SingleImageAndLoadFailuresExitOne ==
    (mode = "main" /\ pc = "done") =>
        /\ (HasLine("Running inference on") /\ raised # "") =>
                (exit_code = 1 /\ ~HasLine("Inference completed successfully"))
        /\ ~predictor.exists =>
                (exit_code = 1 /\ InferenceCalls = {} /\ ReadCalls = {})

\* main() ended in single-image mode after the write of the output raised
C3_Witness ==
    /\ mode = "main"
    /\ pc = "done"
    /\ HasLine("Running inference on")
    /\ raised = "cv2.error"

\* C4: predict_batch on an existing directory with no entry matching the
\* extensions returns an empty list without raising, without reading or
\* inferring on any image, without creating a directory or writing a file.
C4_NoMatchReturnsEmpty ==
    (InBatch /\ pc \in {"loop", "returned"} /\ MatchingFiles = {}) =>
        /\ pc = "returned"
        /\ results = <<>>
        /\ raised = ""
        /\ attempts = <<>>
        /\ InferenceCalls = {} /\ ReadCalls = {} /\ OutputCalls = {}
        /\ dirs = {} /\ files = {}

\* predict_batch returned on a directory that holds a file, none matching,
\* with saving requested
C4_Witness ==
    /\ InBatch
    /\ pc = "returned"
    /\ MatchingFiles = {}
    /\ DOMAIN entries # {}
    /\ call.save_output
    /\ results = <<>>

\* C5: predict_image raises FileNotFoundError for a path that does not
\* exist and ValueError for a file that cannot be decoded, in both cases
\* before any inference, any mkdir and any write.
C5_ChecksBeforeInference ==
    /\ InSingle =>
        LET c == ConditionOf(entries, SinglePath)
        IN  /\ c.state = "missing" => raised = "FileNotFoundError"
            /\ c.state = "unreadable" => raised = "ValueError"
            /\ c.state \in {"missing", "unreadable"} =>
                /\ InferenceCalls = {} /\ OutputCalls = {}
                /\ dirs = {} /\ files = {}
            /\ c.state = "missing" => ReadCalls = {}
    /\ \A i \in DOMAIN attempts :
        LET c == ConditionOf(entries, attempts[i].image_path)
        IN  /\ c.state = "missing" => attempts[i].raised = "FileNotFoundError"
            /\ c.state = "unreadable" => attempts[i].raised = "ValueError"
    /\ (InBatch /\ \A i \in DOMAIN attempts :
            ConditionOf(entries, attempts[i].image_path).state \in {"missing", "unreadable"})
        => (InferenceCalls = {} /\ OutputCalls = {} /\ dirs = {} /\ files = {})

\* a direct predict_image with saving requested ended on an undecodable file
C5_Witness ==
    /\ InSingle
    /\ mode = "api"
    /\ call.save_output
    /\ ConditionOf(entries, SinglePath).state = "unreadable"
    /\ raised = "ValueError"

\* C6: constructing the predictor with a model path that does not exist
\* raises FileNotFoundError before the device is probed and before any
\* model is loaded; no predictor with a nonexistent model path exists.
C6_MissingModelRaisesFirst ==
    /\ (pc # "start" /\ ~ModelExists(args.model)) =>
            (raised = "FileNotFoundError" /\ calls = <<>> /\ ~predictor.exists)
    /\ predictor.exists => ModelExists(predictor.model_path)

\* a direct construction with TTA, automatic device and a missing model ended
C6_Witness ==
    /\ mode = "api"
    /\ pc = "done"
    /\ ~ModelExists(args.model)
    /\ args.device = "None" /\ args.tta /\ tta_available
    /\ raised = "FileNotFoundError"

\* C7: the batch summary agrees with the results: the number processed is
\* the number of results, the total is the sum of their num_detections, the
\* average is printed exactly when there is a result and is the total
\* divided by that number, to two decimals.
C7_SummaryConsistent ==
    (mode = "main" /\ pc = "done" /\ HasLine("Total images processed")) =>
        LET n == Len(results)
            t == DetectionsUpTo(results, n)
        IN  /\ LineVal("Total images processed") = n
            /\ LineVal("Total detections") = t
            /\ HasLine("Average detections per image") <=> n # 0
            /\ n # 0 =>
                2 * Abs(100 * t - LineVal("Average detections per image") * n) <= n

\* a summary over two results or more whose average is not a whole number
C7_Witness ==
    /\ mode = "main"
    /\ pc = "done"
    /\ HasLine("Average detections per image")
    /\ Len(results) >= 2
    /\ DetectionsUpTo(results, Len(results)) % Len(results) # 0

\* C8: with save_output every image for which predict_image returned a
\* result has its annotated file <output_dir>/<stem>_predicted<suffix>, and
\* no other file is written; without it no directory is made and no file
\* written.
C8_SavedExactlyWhenRequested ==
    /\ SaveRequested =>
        {f.path : f \in files} = {OutputPath(EffectiveOutputDir, p) : p \in ReturnedImages}
    /\ ~SaveRequested => dirs = {} /\ files = {}

\* C9: every result has num_detections equal to the length of its
\* predictions, which hold one record per box of the library's result, in
\* its order, with the class name the model maps the class id to, also
\* after the annotations were drawn.
C9_ResultsMirrorLibraryBoxes ==
    \A r \in AllResults :
        LET b == ConditionOf(entries, r.image_path).results.boxes
        IN  /\ r.num_detections = Len(r.predictions)
            /\ Len(r.predictions) = Len(b)
            /\ \A i \in DOMAIN b :
                /\ r.predictions[i].class_id = b[i].cls
                /\ r.predictions[i].class_name = ModelNames[b[i].cls]
                /\ r.predictions[i].confidence = b[i].conf
                /\ r.predictions[i].bbox = b[i].xyxy

\* a result with two detections whose annotated image was written
C9_Witness ==
    \E r \in AllResults :
        /\ Len(r.predictions) = 2
        /\ r.predictions[1].class_id # r.predictions[2].class_id
        /\ \E f \in files : f.path = OutputPath(EffectiveOutputDir, r.image_path)
                            /\ Len(f.image.draws) = 2

\* C10: for any directory and any extensions list predict_batch attempts
\* each image file at most once: no two results share an image_path and
\* there are no more results than distinct matching files.
C10_EachImageAttemptedOnce ==
    InBatch =>
        /\ \A i, j \in DOMAIN attempts :
                i # j => attempts[i].image_path # attempts[j].image_path
        /\ \A i, j \in DOMAIN results :
                i # j => results[i].image_path # results[j].image_path
        /\ Len(results) <= Cardinality(MatchingFiles)

====
